---------------------------- MODULE Spec2Model ----------------------------
(***************************************************************************)
(* A model of music_sorter.py: the MusicFileHandler registry of watched    *)
(* directories, the readiness check, the batch pipeline and the residual   *)
(* reconciler, run by two threads (the observer's event thread, which      *)
(* calls on_created, and the main thread's one-second loop) over a         *)
(* filesystem of files named by their path strings.                        *)
(*                                                                         *)
(* Strings are sequences of one-character strings, so that the path and    *)
(* tag conversions of the code (join, dirname, relpath, split, int,        *)
(* sanitize_filename, format) are computed character by character.         *)
(***************************************************************************)
EXTENDS Integers, Sequences, FiniteSets, TLC

(***************************************************************************)
(* Characters and strings                                                  *)
(***************************************************************************)
Digits == <<"0", "1", "2", "3", "4", "5", "6", "7", "8", "9">>

DigitChars == {Digits[i] : i \in 1..10}

LowerLetters ==
    {"a", "b", "c", "d", "e", "f", "g", "h", "i", "j", "k", "l", "m",
     "n", "o", "p", "q", "r", "s", "t", "u", "v", "w", "x", "y", "z"}

UpperLetters ==
    {"A", "B", "C", "D", "E", "F", "G", "H", "I", "J", "K", "L", "M",
     "N", "O", "P", "Q", "R", "S", "T", "U", "V", "W", "X", "Y", "Z"}

\* str.isalnum() of one character (the ASCII part of it)
IsAlnum(c) == c \in LowerLetters \cup UpperLetters \cup DigitChars

\* str.lower() of one character, for the upper-case letters the model uses
LowerChar(c) ==
    CASE c = "M" -> "m"
      [] c = "P" -> "p"
      [] c = "J" -> "j"
      [] c = "G" -> "g"
      [] OTHER -> c

Lower(s) == [i \in 1..Len(s) |-> LowerChar(s[i])]

StartsWith(s, pre) ==
    /\ Len(s) >= Len(pre)
    /\ SubSeq(s, 1, Len(pre)) = pre

EndsWith(s, suf) ==
    /\ Len(s) >= Len(suf)
    /\ SubSeq(s, Len(s) - Len(suf) + 1, Len(s)) = suf

\* str.endswith(tuple)
EndsWithAny(s, sufs) == \E suf \in sufs : EndsWith(s, suf)

\* s.find(c) and s.rfind(c), 1-based, 0 when c does not occur
Find(s, c) ==
    IF \E i \in 1..Len(s) : s[i] = c
    THEN CHOOSE i \in 1..Len(s) : s[i] = c /\ \A j \in 1..(i - 1) : s[j] # c
    ELSE 0

RFind(s, c) ==
    IF \E i \in 1..Len(s) : s[i] = c
    THEN CHOOSE i \in 1..Len(s) : s[i] = c /\ \A j \in (i + 1)..Len(s) : s[j] # c
    ELSE 0

\* s.rstrip(): only the space survives the filter of sanitize_filename
RECURSIVE RStrip(_)
RStrip(s) ==
    IF Len(s) > 0 /\ s[Len(s)] = " " THEN RStrip(SubSeq(s, 1, Len(s) - 1)) ELSE s

RECURSIVE LStrip(_)
LStrip(s) ==
    IF Len(s) > 0 /\ s[1] = " " THEN LStrip(Tail(s)) ELSE s

Strip(s) == LStrip(RStrip(s))

\* s.split(sep): the list of the pieces between the separators
RECURSIVE Split(_, _)
Split(s, sep) ==
    LET i == Find(s, sep) IN
    IF i = 0 THEN <<s>>
    ELSE <<SubSeq(s, 1, i - 1)>> \o Split(SubSeq(s, i + 1, Len(s)), sep)

(***************************************************************************)
(* os.path on POSIX path strings                                           *)
(***************************************************************************)
Sep == "/"

\* os.path.join(a, b)
Join(a, b) ==
    IF Len(b) > 0 /\ b[1] = Sep THEN b
    ELSE IF Len(a) = 0 \/ a[Len(a)] = Sep THEN a \o b
    ELSE a \o <<Sep>> \o b

Join3(a, b, c) == Join(Join(a, b), c)

RECURSIVE RStripSep(_)
RStripSep(s) ==
    IF Len(s) > 0 /\ s[Len(s)] = Sep THEN RStripSep(SubSeq(s, 1, Len(s) - 1)) ELSE s

\* os.path.dirname(p)
dirname(p) ==
    LET i == RFind(p, Sep)
        head == SubSeq(p, 1, i)
    IN IF RStripSep(head) = <<>> THEN head ELSE RStripSep(head)

\* os.path.basename(p)
basename(p) == SubSeq(p, RFind(p, Sep) + 1, Len(p))

\* os.path.splitext(p): a pair <<root, ext>>; leading dots of the name are no extension
splitext(p) ==
    LET sepIndex == RFind(p, Sep)
        dotIndex == RFind(p, ".")
    IN IF /\ dotIndex > sepIndex
          /\ \E k \in (sepIndex + 1)..(dotIndex - 1) : p[k] # "."
       THEN <<SubSeq(p, 1, dotIndex - 1), SubSeq(p, dotIndex, Len(p))>>
       ELSE <<p, <<>>>>

\* os.path.relpath(path, start) for a one-segment relative start (the watch root)
relpath(path, start) ==
    IF path = start THEN <<".">>
    ELSE IF StartsWith(path, start \o <<Sep>>)
         THEN SubSeq(path, Len(start) + 2, Len(path))
         ELSE <<".", ".", Sep>> \o path

\* the path and its ancestors, as os.makedirs creates them
RECURSIVE Ancestors(_)
Ancestors(p) ==
    IF RFind(p, Sep) = 0 THEN {p}
    ELSE {p} \cup Ancestors(dirname(p))

\* p lies in the subtree of directory d (d itself excluded)
Under(p, d) == StartsWith(p, d \o <<Sep>>)


\* the name the filesystem resolves a relative path string to (os.path.normpath):
\* empty and "." segments dropped, "seg/.." cancelled
RECURSIVE JoinSegs(_)
JoinSegs(segs) ==
    IF Len(segs) = 0 THEN <<>>
    ELSE IF Len(segs) = 1 THEN segs[1]
    ELSE segs[1] \o <<Sep>> \o JoinSegs(Tail(segs))

DotDot == <<".", ".">>

RECURSIVE Resolve(_, _)
Resolve(done, segs) ==
    IF Len(segs) = 0 THEN done
    ELSE LET seg == Head(segs) IN
         IF seg = <<>> \/ seg = <<".">> THEN Resolve(done, Tail(segs))
         ELSE IF seg = DotDot /\ Len(done) > 0 /\ done[Len(done)] # DotDot
              THEN Resolve(SubSeq(done, 1, Len(done) - 1), Tail(segs))
              ELSE Resolve(Append(done, seg), Tail(segs))

Norm(p) == JoinSegs(Resolve(<<>>, Split(p, Sep)))

(***************************************************************************)
(* Tag values and their conversions (process_music_file)                   *)
(***************************************************************************)
\* a tag of a media file: absent, or a list whose first value is val
NoTag == [has |-> FALSE, val |-> <<>>]

Tag(v) == [has |-> TRUE, val |-> v]

\* the values get_metadata_field returns: None, a string, or an int
None == [kind |-> "none", s |-> <<>>, n |-> 0]

StrVal(v) == [kind |-> "str", s |-> v, n |-> 0]

IntVal(k) == [kind |-> "int", s |-> <<>>, n |-> k]

\* Python truthiness of such a value, as all([...]) tests it
Truthy(v) ==
    \/ v.kind = "str" /\ Len(v.s) > 0
    \/ v.kind = "int" /\ v.n # 0

DigitVal(c) == (CHOOSE i \in 1..10 : Digits[i] = c) - 1

RECURSIVE DecVal(_)
DecVal(s) ==
    IF Len(s) = 0 THEN 0
    ELSE 10 * DecVal(SubSeq(s, 1, Len(s) - 1)) + DigitVal(s[Len(s)])

\* int(s): surrounding spaces stripped, an optional sign, then decimal digits
IntBody(s) ==
    LET t == Strip(s) IN
    IF Len(t) > 0 /\ t[1] \in {"+", "-"} THEN Tail(t) ELSE t

IsInt(s) ==
    LET b == IntBody(s) IN
    /\ Len(b) > 0
    /\ \A i \in 1..Len(b) : b[i] \in DigitChars

ParseInt(s) ==
    LET t == Strip(s) IN
    IF Len(t) > 0 /\ t[1] = "-" THEN 0 - DecVal(IntBody(s)) ELSE DecVal(IntBody(s))

RECURSIVE Dec(_)
Dec(k) ==
    IF k < 10 THEN <<Digits[k + 1]>>
    ELSE Dec(k \div 10) \o <<Digits[(k % 10) + 1]>>

\* f"{track_num:02d}": the sign counts in the width of two
Format02d(k) ==
    IF k < 0 THEN <<"-">> \o Dec(0 - k)
    ELSE IF k < 10 THEN <<"0">> \o Dec(k)
    ELSE Dec(k)

\* get_metadata_field(audio, field)
get_metadata_field(audio, field) ==
    IF ~audio[field].has THEN None
    ELSE IF field = "tracknumber"
         THEN LET head == Split(audio[field].val, "/")[1] IN
              IF IsInt(head) THEN IntVal(ParseInt(head)) ELSE None
         ELSE StrVal(audio[field].val)

IsKept(c) == IsAlnum(c) \/ c \in {".", "_", " "}

sanitize_filename_mut(filename) == SelectSeq(RStrip(filename), IsKept)

sanitize_filename(filename) == RStrip(SelectSeq(filename, IsKept))

RequiredFields == <<"artist", "album", "title", "tracknumber", "date">>

\* lines 281-290: the five values, and whether all of them are truthy
AllRequired(audio) ==
    \A i \in 1..Len(RequiredFields) : Truthy(get_metadata_field(audio, RequiredFields[i]))

Take(s, k) == SubSeq(s, 1, IF Len(s) < k THEN Len(s) ELSE k)

SortedRoot == <<"s", "o", "r", "t", "e", "d">>

UnknownRoot == <<"u", "n", "k", "n", "o", "w", "n">>

WatchRoot == <<"w", "a", "t", "c", "h">>

\* lines 293-308: new_filepath of a file whose five values are all truthy
destination_dir(audio) ==
    LET year == Take(get_metadata_field(audio, "date").s, 4)
        artist == sanitize_filename(get_metadata_field(audio, "artist").s)
        album == sanitize_filename(get_metadata_field(audio, "album").s)
        album_folder == album \o <<" ", "(">> \o year \o <<")">>
    IN Join3(SortedRoot, artist, album_folder)

new_filepath(audio, filepath) ==
    LET title == sanitize_filename(get_metadata_field(audio, "title").s)
        track_num == get_metadata_field(audio, "tracknumber").n
        file_extension == Tail(splitext(filepath)[2])
        new_filename == Format02d(track_num) \o <<" ", "-", " ">> \o title
                            \o <<".">> \o file_extension
    IN Join(destination_dir(audio), new_filename)

\* lines 226-236 and 397-402: the mirrored path under unknown/
unknown_dest_dir_mut(source_dir) == Join(UnknownRoot, source_dir)

unknown_dest_dir(source_dir) == Join(UnknownRoot, relpath(source_dir, WatchRoot))

unknown_path(filepath) == Join(unknown_dest_dir(dirname(filepath)), basename(filepath))


(***************************************************************************)
(* The universe of the model: the watched directory, the paths an external *)
(* writer may create in it, and what it may put there                      *)
(***************************************************************************)
DirA == WatchRoot \o <<Sep, "a">>

Mp3 == <<".", "m", "p", "3">>

File1 == DirA \o <<Sep, "1">> \o Mp3

File2 == DirA \o <<Sep, "2">> \o Mp3

CoverJpg == DirA \o <<Sep, "c", ".", "j", "p", "g">>

MediaPaths == {File1, File2}

ImagePaths == {CoverJpg}

WatchDirs == {DirA}

\* the bounds: files and directories the writer creates or removes, and I/O
\* failures the run suffers
MaxArrivals == 2

MaxFaults == 1

Year1999 == <<"1", "9", "9", "9">>

GoodMeta ==
    [readable |-> TRUE, artist |-> Tag(<<"F", "/", "B">>), album |-> Tag(<<"L">>),
     title |-> Tag(<<"S">>), tracknumber |-> Tag(<<"3", "/", "9">>),
     date |-> Tag(Year1999 \o <<"-", "0", "5">>)]

NoAlbumMeta == [GoodMeta EXCEPT !.album = NoTag]

\* what open('a+b') leaves at a path that held no file: an empty file, no tags to read
EmptyMeta ==
    [readable |-> FALSE, artist |-> NoTag, album |-> NoTag, title |-> NoTag,
     tracknumber |-> NoTag, date |-> NoTag]

MetaChoices == {GoodMeta, NoAlbumMeta}

ImageFormats == {"JPEG"}

\* a file: kind, tags, the embedded pictures in order (each with its type, MIME
\* type and data; the data of a picture attached by add_cover_art names the image
\* it was read from, the data of any other picture is empty), embedded lyrics,
\* image format, and orig, the path the file was created at
MediaFile(meta, pics, p) ==
    [kind |-> "media", meta |-> meta, pics |-> pics, lyrics |-> FALSE,
     format |-> "-", orig |-> p]

ImageFile(fmt, p) ==
    [kind |-> "image", meta |-> EmptyMeta, pics |-> << >>, lyrics |-> FALSE,
     format |-> fmt, orig |-> p]

NewContents(p) ==
    IF p \in MediaPaths
    THEN {MediaFile(m, << >>, p) : m \in MetaChoices}
    ELSE {ImageFile(f, p) : f \in ImageFormats}

(***************************************************************************)
(* Program constants                                                       *)
(***************************************************************************)
\* line 100: no new files for 2 seconds
Debounce == 2

\* line 49: is_file_locked(filepath, timeout=60, check_interval=1)
LockTimeout == 60

\* seconds are counted up to the debounce window only: any longer wait
\* compares the same way at line 100
WaitCap == IF LockTimeout < Debounce THEN LockTimeout ELSE Debounce

music_extensions ==
    {<<".", "m", "p", "3">>, <<".", "f", "l", "a", "c">>,
     <<".", "o", "g", "g">>, <<".", "m", "4", "a">>}

image_extensions ==
    {<<".", "j", "p", "g">>, <<".", "j", "p", "e", "g">>, <<".", "p", "n", "g">>}

Threads == {"event", "main"}

(***************************************************************************)
(* State                                                                   *)
(***************************************************************************)
VARIABLES
    fs,               \* the files: path -> file
    dirs,             \* the directories that exist
    locks,            \* the files an external writer still holds open
    queue,            \* creation events raised and not yet handled
    directory_state,  \* self.directory_state: directory -> DirectoryState
    last_file_age,    \* time.time() - self.last_file_time[d], counted up to Debounce
    th,               \* each thread's position and local variables
    arrivals,         \* creations and removals by the writer so far
    faults            \* I/O failures suffered so far

vars == <<fs, dirs, locks, queue, directory_state, last_file_age, th, arrivals, faults>>

NoPath == <<>>

NoCover == [has |-> FALSE, mime_type |-> "-", cover_data |-> NoPath]

\* line 70-75 ('stable_since' is never read or written again and is left out)
NewDirectoryState == [pending_files |-> {}, processed_files |-> {}, failed_files |-> {}]

\* the locals of a call of is_file_locked that is followed attempt by attempt:
\* its arguments, time.time() - start_time, the opens tried, those that raised,
\* and the value returned
NoCall ==
    [timeout |-> 0, check_interval |-> 0, elapsed |-> 0, attempts |-> 0, failures |-> 0,
     result |-> "none"]

\* a thread's locals outside check_directory_readiness
Locals(pc) ==
    [pc |-> pc, directory |-> NoPath, size |-> 0, seen |-> {}, locked_files |-> {},
     filepath |-> NoPath, waited |-> 0,
     cover |-> NoCover, pending_copy |-> {}, success |-> FALSE, todo |-> {},
     exc |-> "none", probe |-> NoCall]

Init ==
    /\ fs = << >>
    /\ dirs = {WatchRoot, SortedRoot, UnknownRoot, DirA}
    /\ locks = {}
    /\ queue = << >>
    /\ directory_state = << >>
    /\ last_file_age = << >>
    /\ th = [t \in Threads |-> Locals(IF t = "main" THEN "loop" ELSE "idle")]
    /\ arrivals = 0
    /\ faults = 0

\* an uncaught exception in the main thread ends the process
Running == th["main"].pc # "crashed"

Put(f, k, v) == [x \in DOMAIN f \cup {k} |-> IF x = k THEN v ELSE f[x]]

Drop(f, k) == [x \in DOMAIN f \ {k} |-> f[x]]

exists(p) == p \in DOMAIN fs \/ p \in dirs


(***************************************************************************)
(* The environment: an external writer, the clock, the event source        *)
(***************************************************************************)
\* the observer raises a creation event; a dead event thread receives none
Raise(path, is_dir) ==
    queue' = IF th["event"].pc = "crashed" THEN queue
             ELSE Append(queue, [src_path |-> path, is_directory |-> is_dir])

\* a writer creates a file in the watched tree, and may keep it open
CreateFile(p) ==
    /\ Running
    /\ arrivals < MaxArrivals
    /\ p \notin DOMAIN fs
    /\ dirname(p) \in dirs
    /\ \E c \in NewContents(p), held \in BOOLEAN :
         /\ held => p \in MediaPaths
         /\ fs' = Put(fs, p, c)
         /\ locks' = IF held THEN locks \cup {p} ELSE locks
    /\ Raise(p, FALSE)
    /\ arrivals' = arrivals + 1
    /\ UNCHANGED <<dirs, directory_state, last_file_age, th, faults>>

\* a writer creates a directory in the watched tree
MkDir(d) ==
    /\ Running
    /\ arrivals < MaxArrivals
    /\ d \notin dirs
    /\ dirname(d) \in dirs
    /\ dirs' = dirs \cup {d}
    /\ Raise(d, TRUE)
    /\ arrivals' = arrivals + 1
    /\ UNCHANGED <<fs, locks, directory_state, last_file_age, th, faults>>

\* the writer closes a file
Unlock(p) ==
    /\ Running
    /\ p \in locks
    /\ locks' = locks \ {p}
    /\ UNCHANGED <<fs, dirs, queue, directory_state, last_file_age, th, arrivals, faults>>

\* another process removes (or moves away) a media file of the watched tree (line 130)
ExtRemove(p) ==
    /\ Running
    /\ arrivals < MaxArrivals
    /\ p \in DOMAIN fs
    /\ fs' = Drop(fs, p)
    /\ locks' = locks \ {p}
    /\ arrivals' = arrivals + 1
    /\ UNCHANGED <<dirs, queue, directory_state, last_file_age, th, faults>>

Bump(k, cap) == IF k < cap THEN k + 1 ELSE k

\* one second passes: every age grows, a sleeping main loop wakes (line 436),
\* a thread retrying in is_file_locked has waited one interval more. on_created
\* reads the clock at line 89 and again at line 97 with nothing that blocks in
\* between: no second passes while the event thread is there
Tick ==
    /\ Running
    /\ th["event"].pc # "check"
    /\ last_file_age' = [d \in DOMAIN last_file_age |-> Bump(last_file_age[d], Debounce)]
    /\ th' = [t \in Threads |->
                IF th[t].pc = "sleep" THEN [th[t] EXCEPT !.pc = "loop"]
                ELSE IF th[t].pc = "wait"
                     THEN [th[t] EXCEPT !.waited = Bump(th[t].waited, WaitCap)]
                     ELSE th[t]]
    /\ UNCHANGED <<fs, dirs, locks, queue, directory_state, arrivals, faults>>

(***************************************************************************)
(* Thread steps. The event thread runs on_created; the main thread runs the *)
(* loop of lines 432-436. Both call check_directory_readiness.              *)
(***************************************************************************)
\* an uncaught exception leaves the handler or the loop: the thread ends
Crashed(e) == [Locals("crashed") EXCEPT !.exc = e]

Crash(t, e) == th' = [th EXCEPT ![t] = Crashed(e)]

\* check_directory_readiness returns to its caller: on_created (line 92), or the
\* loop (line 435), which goes on with the next directory or sleeps (line 436)
Returned(t) ==
    IF t = "event" THEN Locals("idle")
    ELSE IF th[t].todo = {} THEN Locals("sleep")
    ELSE [Locals("next") EXCEPT !.todo = th[t].todo]

Return(t) == th' = [th EXCEPT ![t] = Returned(t)]

\* lines 78-89: on_created(event), up to the call of check_directory_readiness
on_created ==
    /\ Running
    /\ th["event"].pc = "idle"
    /\ queue # << >>
    /\ queue' = Tail(queue)
    /\ LET event == Head(queue)
           filepath == event.src_path
           directory == dirname(filepath)
           old == IF directory \in DOMAIN directory_state
                  THEN directory_state[directory] ELSE NewDirectoryState
       IN IF ~event.is_directory /\ EndsWithAny(filepath, music_extensions)
          THEN /\ directory_state' =
                    Put(directory_state, directory,
                        [old EXCEPT !.pending_files = @ \cup {filepath}])
               /\ last_file_age' = Put(last_file_age, directory, 0)
               /\ th' = [th EXCEPT !["event"] =
                           [Locals("check") EXCEPT !.directory = directory]]
          ELSE UNCHANGED <<directory_state, last_file_age, th>>
    /\ UNCHANGED <<fs, dirs, locks, arrivals, faults>>

\* lines 432-436: the loop takes list(directory_state.keys()) and checks each
\* directory of the list in turn, then sleeps
Loop ==
    /\ th["main"].pc \in {"loop", "next"}
    /\ LET todo == IF th["main"].pc = "loop" THEN DOMAIN directory_state
                   ELSE th["main"].todo
       IN IF todo = {}
          THEN th' = [th EXCEPT !["main"] = Locals("sleep")]
          ELSE \E d \in todo :
                 th' = [th EXCEPT !["main"] =
                          [Locals("check") EXCEPT !.directory = d, !.todo = todo \ {d}]]
    /\ UNCHANGED <<fs, dirs, locks, queue, directory_state, last_file_age, arrivals, faults>>

\* line 100: the directory has had no new file for 2 seconds
Stable(d) == last_file_age[d] >= Debounce

\* lines 96-104: the lookups, the debounce test, the start of the lock loop
Check(t) ==
    /\ Running
    /\ th[t].pc = "check"
    /\ LET d == th[t].directory IN
       IF d \notin DOMAIN directory_state \/ d \notin DOMAIN last_file_age
       THEN Crash(t, "KeyError")
       ELSE IF ~Stable(d)
            THEN Return(t)
            ELSE th' = [th EXCEPT ![t] =
                          [@ EXCEPT !.pc = "probe",
                                    !.size = Cardinality(directory_state[d].pending_files)]]
    /\ UNCHANGED <<fs, dirs, locks, queue, directory_state, last_file_age, arrivals, faults>>

\* line 109: the readiness check goes on to process_directory
Unlocked_mut(locked_files) == Cardinality(locked_files) <= 1

Unlocked(locked_files) == locked_files = {}

\* lines 105-121 and 49-57: the next pending file of the lock loop. A set that
\* changed size under the iteration raises RuntimeError; a file that exists and
\* opens for append at once is not locked; otherwise is_file_locked retries.
\* After the loop the check defers if a file was locked
ProbeNext(t) ==
    /\ Running
    /\ th[t].pc = "probe"
    /\ LET pending_files == directory_state[th[t].directory].pending_files
           rest == pending_files \ th[t].seen
       IN IF Cardinality(pending_files) # th[t].size
          THEN Crash(t, "RuntimeError")
          ELSE IF rest = {}
               THEN IF Unlocked(th[t].locked_files)
                    THEN th' = [th EXCEPT ![t] = [@ EXCEPT !.pc = "cover"]]
                    ELSE Return(t)
               ELSE \E filepath \in rest :
                      IF exists(filepath) /\ filepath \in locks
                      THEN th' = [th EXCEPT ![t] =
                                    [@ EXCEPT !.pc = "wait", !.filepath = filepath,
                                              !.waited = 0]]
                      ELSE th' = [th EXCEPT ![t] = [@ EXCEPT !.seen = @ \cup {filepath}]]
    /\ UNCHANGED <<fs, dirs, locks, queue, directory_state, last_file_age, arrivals, faults>>

\* lines 52-65: the end of a wait in is_file_locked. An open(filepath, 'a+b')
\* made before the timeout succeeds once no writer holds the file, and creates
\* the file if it has vanished (the observer reports that creation); when the
\* timeout has elapsed at the loop test the file counts as locked, whether or
\* not it could be opened by then
ProbeWait(t) ==
    /\ Running
    /\ th[t].pc = "wait"
    /\ LET filepath == th[t].filepath
           opens == filepath \notin locks /\ (filepath \in DOMAIN fs \/ dirname(filepath) \in dirs)
       IN \E timed_out \in BOOLEAN :
            /\ IF timed_out THEN th[t].waited >= WaitCap ELSE opens
            /\ IF ~timed_out
               THEN /\ th' = [th EXCEPT ![t] =
                                [@ EXCEPT !.pc = "probe", !.seen = @ \cup {filepath},
                                          !.filepath = NoPath, !.waited = 0]]
                    /\ IF filepath \in DOMAIN fs
                       THEN UNCHANGED <<fs, queue>>
                       ELSE /\ fs' = Put(fs, filepath, MediaFile(EmptyMeta, << >>, filepath))
                            /\ Raise(filepath, FALSE)
               ELSE /\ th' = [th EXCEPT ![t] =
                                [@ EXCEPT !.pc = "probe", !.seen = @ \cup {filepath},
                                          !.locked_files = @ \cup {filepath},
                                          !.filepath = NoPath, !.waited = 0]]
                    /\ UNCHANGED <<fs, queue>>
    /\ UNCHANGED <<dirs, locks, directory_state, last_file_age, arrivals, faults>>

\* lines 18-42: the images find_cover_art may return, whatever the listing order:
\* a direct entry of the directory with an image extension (any case) that
\* decodes as JPEG or PNG
CoverCandidates(directory) ==
    {p \in DOMAIN fs :
        /\ dirname(p) = directory
        /\ EndsWithAny(Lower(basename(p)), image_extensions)
        /\ fs[p].kind = "image"
        /\ fs[p].format \in {"JPEG", "PNG"}}

CoverOf(p) ==
    [has |-> TRUE,
     mime_type |-> IF fs[p].format = "PNG" THEN "image/png" ELSE "image/jpeg",
     cover_data |-> fs[p].orig]

\* lines 109-119 and 125-126: no file is locked; find_cover_art runs, then
\* process_directory binds state and copies pending_files
ProcessDirectoryStart(t) ==
    /\ Running
    /\ th[t].pc = "cover"
    /\ LET d == th[t].directory
           found == IF d \in dirs THEN CoverCandidates(d) ELSE {}
           covers == IF found = {} THEN {NoCover} ELSE {CoverOf(p) : p \in found}
       IN IF d \notin DOMAIN directory_state
          THEN Crash(t, "KeyError")
          ELSE \E cover \in covers :
                 th' = [th EXCEPT ![t] =
                          [@ EXCEPT !.pc = "file", !.cover = cover, !.size = 0, !.seen = {},
                                    !.pending_copy = directory_state[d].pending_files]]
    /\ UNCHANGED <<fs, dirs, locks, queue, directory_state, last_file_age, arrivals, faults>>

\* lines 147, 173, 205: mutagen's FLAC object has 'pictures' and 'add_picture';
\* line 138: the file is opened as MP3 with ID3 tags
IsFlac(filepath) == EndsWith(Lower(filepath), <<".", "f", "l", "a", "c">>)

IsMp3(filepath) == EndsWith(Lower(filepath), Mp3)

\* pic.type = 3, Cover (front)
FrontCover == 3

\* the picture add_cover_art builds (lines 207-210, 217-218)
Picture(cover) == [type |-> FrontCover, mime |-> cover.mime_type, data |-> cover.cover_data]

\* audio.tags is truthy: the file carries at least one tag frame; an embedded
\* picture of an MP3 file is an APIC frame of its tags
TagsTruthy(file, filepath) ==
    \/ file.lyrics
    \/ \E i \in 1..Len(RequiredFields) : file.meta[RequiredFields[i]].has
    \/ IsMp3(filepath) /\ file.pics # << >>

\* lines 169-194: presence of an embedded picture, not a comparison of bytes: a
\* front cover among a FLAC file's pictures, any APIC frame in truthy ID3 tags;
\* the tags of the other formats show none
has_cover_art_mut(file, filepath) ==
    IF IsFlac(filepath)
    THEN \E i \in 1..Len(file.pics) : file.pics[i].type = FrontCover /\ file.pics[i].data = << >>
    ELSE IsMp3(filepath) /\ TagsTruthy(file, filepath) /\ file.pics # << >>

has_cover_art(file, filepath) ==
    IF IsFlac(filepath)
    THEN \E i \in 1..Len(file.pics) : file.pics[i].type = FrontCover
    ELSE IsMp3(filepath) /\ TagsTruthy(file, filepath) /\ file.pics # << >>

\* lines 196-222: a FLAC file takes add_picture; an MP3 file takes an APIC frame
\* when its tags are truthy; the other formats offer neither
add_cover_art(file, filepath, cover) ==
    IF has_cover_art(file, filepath) THEN file
    ELSE IF IsFlac(filepath)
         THEN [file EXCEPT !.pics = Append(@, Picture(cover))]
         ELSE IF IsMp3(filepath) /\ TagsTruthy(file, filepath)
              THEN [file EXCEPT !.pics = Append(@, Picture(cover))]
              ELSE file

\* lines 135-152: cover art is applied to the file where it lies, before
\* process_music_file looks at its tags; io_error: the save raises, and every
\* failure is caught
apply_cover_art(files, filepath, cover, io_error) ==
    IF /\ cover.has
       /\ ~io_error
       /\ filepath \in DOMAIN files
       /\ files[filepath].meta.readable
    THEN [files EXCEPT ![filepath] = add_cover_art(files[filepath], filepath, cover)]
    ELSE files

\* set.remove(filepath) on pending_files: KeyError if it is not there
Removable(st, filepath) == filepath \in st.pending_files

\* lines 128-152: the next file of the copy. One that no longer exists is removed
\* from pending_files; one that exists gets the cover art
NextFile(t) ==
    /\ Running
    /\ th[t].pc = "file"
    /\ IF th[t].pending_copy = {}
       THEN /\ th' = [th EXCEPT ![t] = [@ EXCEPT !.pc = "end", !.filepath = NoPath]]
            /\ UNCHANGED <<directory_state, fs, faults>>
       ELSE \E filepath \in th[t].pending_copy :
              LET l == [th[t] EXCEPT !.pending_copy = @ \ {filepath}, !.filepath = filepath]
                  d == th[t].directory
                  st == directory_state[d]
              IN IF exists(filepath)
                 THEN /\ th' = [th EXCEPT ![t] = [l EXCEPT !.pc = "pmf"]]
                      /\ \E io_error \in BOOLEAN :
                           /\ io_error => faults < MaxFaults /\ th[t].cover.has
                           /\ faults' = IF io_error THEN faults + 1 ELSE faults
                           /\ fs' = apply_cover_art(fs, filepath, th[t].cover, io_error)
                      /\ UNCHANGED directory_state
                 ELSE /\ IF Removable(st, filepath)
                         THEN /\ th' = [th EXCEPT ![t] = [l EXCEPT !.filepath = NoPath]]
                              /\ directory_state' =
                                   [directory_state EXCEPT ![d].pending_files = @ \ {filepath}]
                         ELSE Crash(t, "KeyError") /\ UNCHANGED directory_state
                      /\ UNCHANGED <<fs, faults>>
    /\ UNCHANGED <<dirs, locks, queue, last_file_age, arrivals>>

Move(files, src, dst) ==
    [x \in (DOMAIN files \ {src}) \cup {dst} |-> IF x = dst THEN files[src] ELSE files[x]]

MakeDirs(ds, p) == ds \cup Ancestors(Norm(p))

\* lines 310-331: a sidecar .lrc is embedded and then deleted
lrc_filepath(filepath) == splitext(filepath)[1] \o <<".", "l", "r", "c">>

AddLyrics(files, filepath) ==
    IF lrc_filepath(filepath) \in DOMAIN files
    THEN Drop([files EXCEPT ![filepath] = [@ EXCEPT !.lyrics = TRUE]],
              lrc_filepath(filepath))
    ELSE files

\* lines 262-290: the tags are read and all five values are truthy
Accepts(files, filepath) ==
    /\ filepath \in DOMAIN files
    /\ files[filepath].meta.readable
    /\ AllRequired(files[filepath].meta)

\* lines 241-341: process_music_file(filepath), as [success, fs, dirs];
\* io_error: makedirs or shutil.move raises, which the outer try catches
process_music_file(files, ds, filepath, io_error) ==
    IF ~Accepts(files, filepath)
    THEN [success |-> FALSE, fs |-> files, dirs |-> ds]
    ELSE LET audio == files[filepath].meta IN
         IF io_error
         THEN [success |-> FALSE, fs |-> files, dirs |-> ds]
         ELSE [success |-> TRUE,
               fs |-> Move(AddLyrics(files, filepath), filepath,
                           Norm(new_filepath(audio, filepath))),
               dirs |-> MakeDirs(ds, destination_dir(audio))]

\* line 154
ProcessMusicFile(t) ==
    /\ Running
    /\ th[t].pc = "pmf"
    /\ \E io_error \in BOOLEAN :
         /\ io_error => faults < MaxFaults /\ Accepts(fs, th[t].filepath)
         /\ faults' = IF io_error THEN faults + 1 ELSE faults
         /\ LET r == process_music_file(fs, dirs, th[t].filepath, io_error) IN
            /\ fs' = r.fs
            /\ dirs' = r.dirs
            /\ th' = [th EXCEPT ![t] = [@ EXCEPT !.pc = "book", !.success = r.success]]
    /\ UNCHANGED <<locks, queue, directory_state, last_file_age, arrivals>>

\* lines 224-239: move_to_unknown(filepath), as [raised, fs, dirs]; makedirs is
\* outside the try, a failed move is caught and leaves the file
move_to_unknown(files, ds, filepath, io_error) ==
    IF io_error = "makedirs"
    THEN [raised |-> TRUE, fs |-> files, dirs |-> ds]
    ELSE [raised |-> FALSE,
          fs |-> IF filepath \in DOMAIN files /\ io_error = "none"
                 THEN Move(files, filepath, Norm(unknown_path(filepath)))
                 ELSE files,
          dirs |-> MakeDirs(ds, unknown_dest_dir(dirname(filepath)))]

\* lines 155-160: the file leaves pending_files for processed_files or failed_files
Disposed(st, filepath, success) ==
    IF success
    THEN [st EXCEPT !.pending_files = @ \ {filepath},
                    !.processed_files = @ \cup {filepath}]
    ELSE [st EXCEPT !.pending_files = @ \ {filepath},
                    !.failed_files = @ \cup {filepath}]

\* lines 155-161: the bookkeeping, and a failed file is moved to the unknown tree
Dispose(t) ==
    /\ Running
    /\ th[t].pc = "book"
    /\ LET filepath == th[t].filepath
           d == th[t].directory
           st == directory_state[d]
           l == [th[t] EXCEPT !.pc = "file", !.filepath = NoPath, !.success = FALSE]
       IN IF ~Removable(st, filepath)
          THEN Crash(t, "KeyError") /\ UNCHANGED <<fs, dirs, directory_state, faults>>
          ELSE /\ directory_state' =
                    [directory_state EXCEPT ![d] = Disposed(st, filepath, th[t].success)]
               /\ IF th[t].success
                  THEN /\ th' = [th EXCEPT ![t] = l]
                       /\ UNCHANGED <<fs, dirs, faults>>
                  ELSE \E io_error \in {"none", "makedirs", "move"} :
                         LET r == move_to_unknown(fs, dirs, filepath, io_error) IN
                         /\ io_error # "none" => faults < MaxFaults
                         /\ io_error = "move" => filepath \in DOMAIN fs
                         /\ faults' = IF io_error # "none" THEN faults + 1 ELSE faults
                         /\ fs' = r.fs
                         /\ dirs' = r.dirs
                         /\ th' = [th EXCEPT ![t] = IF r.raised THEN Crashed("OSError") ELSE l]
    /\ UNCHANGED <<locks, queue, last_file_age, arrivals>>

\* os.listdir(path) restricted to directories, and whether os.rmdir(path) succeeds
SubDirs(ds, path) == {c \in ds : c # path /\ dirname(c) = path}

IsEmptyDir_mut(files, ds, path) == SubDirs(ds, path) = {}

IsEmptyDir(files, ds, path) ==
    /\ SubDirs(ds, path) = {}
    /\ \A p \in DOMAIN files : dirname(p) # path

\* lines 347-374: remove_empty_dirs(path, stop_at) with stop_at the watch root, as
\* [dirs, raised]. os.path.samefile raises when a nested call has already removed
\* path; the exception unwinds to handle_remaining_files
RECURSIVE remove_empty_dirs(_, _, _), PruneSubDirs(_, _, _)
remove_empty_dirs(files, ds, path) ==
    IF path \notin ds THEN [dirs |-> ds, raised |-> FALSE]
    ELSE LET r == PruneSubDirs(files, ds, SubDirs(ds, path)) IN
         IF r.raised THEN r
         ELSE IF path \notin r.dirs THEN [dirs |-> r.dirs, raised |-> TRUE]
         ELSE IF path = WatchRoot THEN r
         ELSE IF ~IsEmptyDir(files, r.dirs, path) THEN r
         ELSE LET parent == dirname(path) IN
              IF parent # <<>> /\ parent # WatchRoot
              THEN remove_empty_dirs(files, r.dirs \ {path}, parent)
              ELSE [dirs |-> r.dirs \ {path}, raised |-> FALSE]

PruneSubDirs(files, ds, todo) ==
    IF todo = {} THEN [dirs |-> ds, raised |-> FALSE]
    ELSE LET subdir == CHOOSE c \in todo : TRUE
             r == remove_empty_dirs(files, ds, subdir)
         IN IF r.raised THEN r ELSE PruneSubDirs(files, r.dirs, todo \ {subdir})

\* lines 383-387: the files os.walk finds under processed_dir that have no music extension
Residual(files, ds, processed_dir) ==
    IF processed_dir \notin ds THEN {}
    ELSE {p \in DOMAIN files :
            Under(p, processed_dir) /\ ~EndsWithAny(basename(p), music_extensions)}

IsCoverFile_mut(p) == EndsWithAny(Lower(basename(p)), image_extensions)

IsCoverFile(p) == EndsWithAny(basename(p), image_extensions)

\* lines 390-403 for the files in done: an image is deleted, any other file is
\* moved to its mirrored path under unknown/
HandleFiles(files, done) ==
    LET moved == {p \in done : ~IsCoverFile(p)}
        dest(p) == Norm(unknown_path(p))
        dests == {dest(p) : p \in moved}
    IN [x \in (DOMAIN files \ done) \cup dests |->
          IF x \in dests THEN files[CHOOSE p \in moved : dest(p) = x] ELSE files[x]]

HandleDirs(ds, done) ==
    ds \cup UNION {MakeDirs({}, unknown_dest_dir(dirname(p))) : p \in {q \in done : ~IsCoverFile(q)}}

\* lines 377-411: handle_remaining_files(processed_dir), as [raised, fs, dirs].
\* os.remove, os.makedirs and shutil.move are outside any try: a failure
\* (io_error) leaves the files in done handled and raises; the pruning is in a try
handle_remaining_files(files, ds, processed_dir, io_error, done) ==
    IF io_error
    THEN [raised |-> TRUE, fs |-> HandleFiles(files, done), dirs |-> HandleDirs(ds, done)]
    ELSE LET todo == Residual(files, ds, processed_dir)
             left == HandleFiles(files, todo)
         IN [raised |-> FALSE,
             fs |-> left,
             dirs |-> remove_empty_dirs(left, HandleDirs(ds, todo), processed_dir).dirs]

\* line 164: cleanup runs only when pending_files is empty and the directory is registered
Drained(d) == d \in DOMAIN directory_state /\ directory_state[d].pending_files = {}

\* lines 163-165: after the copy is consumed, the reconciler runs for a drained directory
EndOfPass(t) ==
    /\ Running
    /\ th[t].pc = "end"
    /\ LET d == th[t].directory IN
       IF Drained(d)
       THEN \E io_error \in BOOLEAN, done \in SUBSET Residual(fs, dirs, d) :
              LET r == handle_remaining_files(fs, dirs, d, io_error, done) IN
              /\ IF io_error
                 THEN faults < MaxFaults /\ done # Residual(fs, dirs, d)
                 ELSE done = {}
              /\ faults' = IF io_error THEN faults + 1 ELSE faults
              /\ fs' = r.fs
              /\ dirs' = r.dirs
              /\ IF r.raised
                 THEN Crash(t, "OSError")
                 ELSE th' = [th EXCEPT ![t] = [@ EXCEPT !.pc = "del"]]
       ELSE Return(t) /\ UNCHANGED <<fs, dirs, faults>>
    /\ UNCHANGED <<locks, queue, directory_state, last_file_age, arrivals>>

\* lines 166-167: del self.directory_state[directory]; del self.last_file_time[directory]
DeleteState(t) ==
    /\ Running
    /\ th[t].pc = "del"
    /\ LET d == th[t].directory IN
       IF d \notin DOMAIN directory_state
       THEN Crash(t, "KeyError") /\ UNCHANGED <<directory_state, last_file_age>>
       ELSE /\ directory_state' = Drop(directory_state, d)
            /\ IF d \notin DOMAIN last_file_age
               THEN Crash(t, "KeyError") /\ UNCHANGED last_file_age
               ELSE Return(t) /\ last_file_age' = Drop(last_file_age, d)
    /\ UNCHANGED <<fs, dirs, locks, queue, arrivals, faults>>

\* check_directory_readiness and process_directory past the debounce test
Pipeline(t) ==
    \/ ProbeNext(t)
    \/ ProbeWait(t)
    \/ ProcessDirectoryStart(t)
    \/ NextFile(t)
    \/ ProcessMusicFile(t)
    \/ Dispose(t)
    \/ EndOfPass(t)
    \/ DeleteState(t)

Environment ==
    \/ \E p \in MediaPaths \cup ImagePaths : CreateFile(p)
    \/ \E d \in WatchDirs : MkDir(d)
    \/ \E p \in MediaPaths : Unlock(p)
    \/ \E p \in MediaPaths : ExtRemove(p)
    \/ Tick

Next ==
    \/ Environment
    \/ on_created
    \/ Loop
    \/ \E t \in Threads : Check(t)
    \/ Pipeline("main")

Spec == Init /\ [][Next]_vars

\* the same program with its scheduling: the clock advances, the observer
\* delivers its events, both threads keep running, and a writer closes every
\* file it holds.  ProcessMusicFile and Dispose are enabled exactly while the
\* running main thread is at "pmf" or "book", and taking either leaves that
\* position, so their weak fairness is that the thread does not stay there for
\* ever; it is written through the position, which needs no successor state
SpecLive ==
    /\ Init
    /\ [][Next]_vars
    /\ WF_vars(Tick)
    /\ WF_vars(on_created)
    /\ WF_vars(Loop)
    /\ WF_vars(\E t \in Threads : Check(t))
    /\ WF_vars(\/ ProbeNext("main")
               \/ ProbeWait("main")
               \/ ProcessDirectoryStart("main")
               \/ NextFile("main")
               \/ EndOfPass("main")
               \/ DeleteState("main"))
    /\ []<>~(Running /\ th["main"].pc \in {"pmf", "book"})
    /\ WF_vars(\E p \in MediaPaths : Unlock(p))

(***************************************************************************)
(* A second specification for the destination path: one media file with    *)
(* tags drawn from MetaUniverse stands at line 154, in a directory whose    *)
(* debounce window has passed; process_music_file and the bookkeeping run.  *)
(***************************************************************************)
TagTexts ==
    [artist |-> {<<"F", "/", "B">>, <<"!">>},
     album |-> {<<"L">>},
     title |-> {<<"S">>, <<"?">>},
     tracknumber |-> {<<"3", "/", "9">>, <<"0">>, <<"7">>, <<"1", "0", "0">>, <<"x">>},
     date |-> {Year1999 \o <<"-", "0", "5">>, <<"1", "/", "2", "/", "9", "9">>, <<"9", "9">>}]

MetaUniverse ==
    {[readable |-> TRUE, artist |-> Tag(a), album |-> Tag(b), title |-> Tag(c),
      tracknumber |-> Tag(n), date |-> Tag(y)] :
        a \in TagTexts.artist, b \in TagTexts.album, c \in TagTexts.title,
        n \in TagTexts.tracknumber, y \in TagTexts.date}

InitMeta ==
    /\ \E meta \in MetaUniverse : fs = Put(<< >>, File1, MediaFile(meta, << >>, File1))
    /\ dirs = {WatchRoot, SortedRoot, UnknownRoot, DirA}
    /\ locks = {}
    /\ queue = << >>
    /\ directory_state = Put(<< >>, DirA, [NewDirectoryState EXCEPT !.pending_files = {File1}])
    /\ last_file_age = Put(<< >>, DirA, Debounce)
    /\ th = [t \in Threads |->
               IF t = "main"
               THEN [Locals("pmf") EXCEPT !.directory = DirA, !.filepath = File1]
               ELSE Locals("idle")]
    /\ arrivals = 1
    /\ faults = 0

NextMeta ==
    \/ ProcessMusicFile("main")
    \/ Dispose("main")

SpecMeta == InitMeta /\ [][NextMeta]_vars

(***************************************************************************)
(* A third specification for the reconciler: a pass over directory D has   *)
(* consumed its snapshot (line 163) over a tree drawn from TreeFiles and    *)
(* TreeDirs, with a nested directory that may itself be tracked; the        *)
(* cleanup of lines 164-167 runs.                                           *)
(***************************************************************************)
DirB == DirA \o <<Sep, "b">>

DirE == WatchRoot \o <<Sep, "e">>

DirF == DirA \o <<Sep, "f">>

Txt(d) == d \o <<Sep, "n", ".", "t", "x", "t">>

Jpg(d) == d \o <<Sep, "c", ".", "j", "p", "g">>

UpperJpg == DirA \o <<Sep, "C", ".", "J", "P", "G">>

File2B == DirB \o <<Sep, "2">> \o Mp3

TreeFiles == {File1, Jpg(DirA), Txt(DirA), UpperJpg, Jpg(DirB), Txt(DirB), File2B}

TreeDirs == {DirA, DirB, DirE, DirF}

OtherFile(p) ==
    [kind |-> "other", meta |-> EmptyMeta, pics |-> << >>, lyrics |-> FALSE,
     format |-> "-", orig |-> p]

TreeContents(p) ==
    IF EndsWith(p, Mp3) THEN MediaFile(NoAlbumMeta, << >>, p)
    ELSE IF EndsWithAny(Lower(p), image_extensions) THEN ImageFile("JPEG", p)
    ELSE OtherFile(p)

InitTree ==
    \E D \in {WatchRoot, DirA, DirB}, F \in SUBSET TreeFiles,
       ds \in SUBSET TreeDirs, tracked \in BOOLEAN :
        /\ D \in ds \cup {WatchRoot}
        /\ \A d \in ds : dirname(d) \in ds \cup {WatchRoot}
        /\ \A f \in F : dirname(f) \in ds
        /\ tracked => File2B \in F /\ D # DirB
        /\ fs = [f \in F |-> TreeContents(f)]
        /\ dirs = {WatchRoot, SortedRoot, UnknownRoot} \cup ds
        /\ locks = {}
        /\ queue = << >>
        /\ directory_state =
             LET drained == Put(<< >>, D, NewDirectoryState) IN
             IF tracked
             THEN Put(drained, DirB, [NewDirectoryState EXCEPT !.pending_files = {File2B}])
             ELSE drained
        /\ last_file_age =
             LET quiet == Put(<< >>, D, Debounce) IN
             IF tracked THEN Put(quiet, DirB, 0) ELSE quiet
        /\ th = [t \in Threads |->
                   IF t = "main" THEN [Locals("end") EXCEPT !.directory = D]
                   ELSE Locals("idle")]
        /\ arrivals = 0
        /\ faults = 0

NextTree ==
    \/ EndOfPass("main")
    \/ DeleteState("main")

SpecTree == InitTree /\ [][NextTree]_vars

(***************************************************************************)
(* A fourth specification for the cover-art enricher: one media file of any *)
(* format, with any pictures of its own, lies in a directory under          *)
(* processing; the cover-art block of lines 135-152 is applied to it, again *)
(* and again, with either of two images.                                    *)
(***************************************************************************)
FlacFile == DirA \o <<Sep, "1", ".", "f", "l", "a", "c">>

OggFile == DirA \o <<Sep, "1", ".", "o", "g", "g">>

CoverPng == DirA \o <<Sep, "c", ".", "p", "n", "g">>

Covers ==
    {[has |-> TRUE, mime_type |-> "image/jpeg", cover_data |-> CoverJpg],
     [has |-> TRUE, mime_type |-> "image/png", cover_data |-> CoverPng]}

\* the pictures a file may carry when it arrives: front cover, back cover, other
OwnPictures == {[type |-> t, mime |-> "image/jpeg", data |-> << >>] : t \in {0, FrontCover, 4}}

OwnPictureLists == {<< >>} \cup {<<a>> : a \in OwnPictures} \cup (OwnPictures \X OwnPictures)

\* a readable file without any tag
NoTagsMeta == [EmptyMeta EXCEPT !.readable = TRUE]

InitCover ==
    \E f \in {File1, FlacFile, OggFile}, pics \in OwnPictureLists,
       meta \in {GoodMeta, NoTagsMeta} :
        /\ fs = Put(<< >>, f, MediaFile(meta, pics, f))
        /\ dirs = {WatchRoot, SortedRoot, UnknownRoot, DirA}
        /\ locks = {}
        /\ queue = << >>
        /\ directory_state = Put(<< >>, DirA, [NewDirectoryState EXCEPT !.pending_files = {f}])
        /\ last_file_age = Put(<< >>, DirA, Debounce)
        /\ th = [t \in Threads |->
                   IF t = "main"
                   THEN [Locals("file") EXCEPT !.directory = DirA, !.pending_copy = {f}]
                   ELSE Locals("idle")]
        /\ arrivals = 1
        /\ faults = 0

\* lines 135-152 for one file and one cover image
EnrichmentPass ==
    /\ \E f \in DOMAIN fs, cover \in Covers : fs' = apply_cover_art(fs, f, cover, FALSE)
    /\ UNCHANGED <<dirs, locks, queue, directory_state, last_file_age, th, arrivals, faults>>

SpecCover == InitCover /\ [][EnrichmentPass]_vars

(***************************************************************************)
(* A fifth specification for sanitize_filename: a file whose title tag is   *)
(* any string of up to MaxLen characters of Alphabet stands at line 154;    *)
(* process_music_file sanitizes the title into the new file name.           *)
(***************************************************************************)
MaxLen == 3

Alphabet == {"a", "B", "7", " ", ".", "_", "!", "/"}

Strings == UNION {[1..n -> Alphabet] : n \in 0..MaxLen}

InitSanitize ==
    /\ \E title \in Strings :
         fs = Put(<< >>, File1, MediaFile([GoodMeta EXCEPT !.title = Tag(title)], << >>, File1))
    /\ dirs = {WatchRoot, SortedRoot, UnknownRoot, DirA}
    /\ locks = {}
    /\ queue = << >>
    /\ directory_state = Put(<< >>, DirA, [NewDirectoryState EXCEPT !.pending_files = {File1}])
    /\ last_file_age = Put(<< >>, DirA, Debounce)
    /\ th = [t \in Threads |->
               IF t = "main"
               THEN [Locals("pmf") EXCEPT !.directory = DirA, !.filepath = File1]
               ELSE Locals("idle")]
    /\ arrivals = 1
    /\ faults = 0

SpecSanitize == InitSanitize /\ [][NextMeta]_vars

(***************************************************************************)
(* A sixth specification for is_file_locked: one call, with a timeout of up *)
(* to MaxTimeout seconds and a check interval of up to MaxInterval seconds, *)
(* followed attempt by attempt while a writer opens and closes the file.    *)
(* The thread that makes the call keeps running (weak fairness).            *)
(***************************************************************************)
MaxTimeout == 3

MaxInterval == 2

InitLock ==
    \E timeout \in 0..MaxTimeout, check_interval \in 1..MaxInterval, held \in BOOLEAN :
        /\ fs = Put(<< >>, File1, MediaFile(GoodMeta, << >>, File1))
        /\ dirs = {WatchRoot, SortedRoot, UnknownRoot, DirA}
        /\ locks = IF held THEN {File1} ELSE {}
        /\ queue = << >>
        /\ directory_state = Put(<< >>, DirA, [NewDirectoryState EXCEPT !.pending_files = {File1}])
        /\ last_file_age = Put(<< >>, DirA, Debounce)
        /\ th = [t \in Threads |->
                   IF t = "main"
                   THEN [Locals("try") EXCEPT
                           !.directory = DirA, !.filepath = File1, !.size = 1,
                           !.probe = [NoCall EXCEPT !.timeout = timeout,
                                                    !.check_interval = check_interval]]
                   ELSE Locals("idle")]
        /\ arrivals = 1
        /\ faults = 0

\* line 52: while time.time() - start_time < timeout
TimedOut_mut(c) == c.elapsed > c.timeout

TimedOut(c) == c.elapsed >= c.timeout

\* line 55: open(filepath, 'a+b') does not raise
CanOpen(filepath) == filepath \notin locks /\ dirname(filepath) \in dirs

\* lines 52-59 and 64-65: the loop test, then one open; success returns False,
\* failure goes to the sleep; once the timeout has elapsed the call returns True
OpenAttempt ==
    /\ th["main"].pc = "try"
    /\ LET c == th["main"].probe IN
       IF TimedOut(c)
       THEN th' = [th EXCEPT !["main"] =
                     [@ EXCEPT !.pc = "returned", !.probe = [c EXCEPT !.result = "True"]]]
       ELSE IF CanOpen(th["main"].filepath)
            THEN th' = [th EXCEPT !["main"] =
                          [@ EXCEPT !.pc = "returned",
                                    !.probe = [c EXCEPT !.attempts = @ + 1,
                                                        !.result = "False"]]]
            ELSE th' = [th EXCEPT !["main"] =
                          [@ EXCEPT !.pc = "sleeping",
                                    !.probe = [c EXCEPT !.attempts = @ + 1,
                                                        !.failures = @ + 1]]]
    /\ UNCHANGED <<fs, dirs, locks, queue, directory_state, last_file_age, arrivals, faults>>

\* lines 61-62: time.sleep(check_interval) takes the interval, or a second more
SleepInterval ==
    /\ th["main"].pc = "sleeping"
    /\ \E late \in {0, 1} :
         th' = [th EXCEPT !["main"] =
                  [@ EXCEPT !.pc = "try",
                            !.probe.elapsed = @ + th["main"].probe.check_interval + late]]
    /\ UNCHANGED <<fs, dirs, locks, queue, directory_state, last_file_age, arrivals, faults>>

\* the writer opens the file again
Hold(p) ==
    /\ p \in DOMAIN fs
    /\ p \notin locks
    /\ locks' = locks \cup {p}
    /\ UNCHANGED <<fs, dirs, queue, directory_state, last_file_age, th, arrivals, faults>>

NextLock ==
    \/ OpenAttempt
    \/ SleepInterval
    \/ Unlock(File1)
    \/ Hold(File1)

SpecLock ==
    /\ InitLock
    /\ [][NextLock]_vars
    /\ WF_vars(OpenAttempt)
    /\ WF_vars(SleepInterval)

(***************************************************************************)
(* The claims                                                              *)
(***************************************************************************)
\* C1: for every tracked directory, no path is in more than one of
\* pending_files, processed_files and failed_files
C1_Disjoint ==
    \A d \in DOMAIN directory_state :
        LET st == directory_state[d] IN
        /\ st.pending_files \cap st.processed_files = {}
        /\ st.pending_files \cap st.failed_files = {}
        /\ st.processed_files \cap st.failed_files = {}

\* C2: process_directory never starts for a directory when fewer than 2 seconds
\* have passed since its most recent qualifying on_created event
C2_StartsOnlyWhenQuiet ==
    [][(th["main"].pc = "cover" /\ th'["main"].pc = "file")
          => last_file_age[th["main"].directory] >= Debounce]_vars

\* C3 (as amended): a media file with a missing or invalid required tag lies at
\* the path it was created at or at unknown/<source directory relative to
\* watch>/<original filename>, never under sorted/; the step that disposes of it
\* after process_music_file has failed moves it to that unknown path unless an
\* I/O operation fails in the step
C3_InvalidGoesToUnknown ==
    [][LET claimed(orig) ==
               Norm(UnknownRoot \o <<Sep>> \o relpath(dirname(orig), WatchRoot)
                        \o <<Sep>> \o basename(orig))
           invalid(f) == f.kind = "media" /\ ~(f.meta.readable /\ AllRequired(f.meta))
           filepath == th["main"].filepath
       IN /\ \A p \in DOMAIN fs' :
                invalid(fs'[p]) =>
                    /\ p = fs'[p].orig \/ p = claimed(fs'[p].orig)
                    /\ ~Under(p, SortedRoot)
          /\ (/\ th["main"].pc = "book"
              /\ ~th["main"].success
              /\ th'["main"] # th["main"]
              /\ filepath \in DOMAIN fs
              /\ invalid(fs[filepath])
              /\ faults' = faults)
                => /\ filepath \notin DOMAIN fs'
                   /\ claimed(filepath) \in DOMAIN fs'
                   /\ fs'[claimed(filepath)] = fs[filepath]]_vars

\* C3 witness: a file with a missing tag has been moved into the unknown tree
C3_Witness ==
    \E p \in DOMAIN fs :
        /\ fs[p].kind = "media"
        /\ ~AllRequired(fs[p].meta)
        /\ p # fs[p].orig
        /\ Under(p, UnknownRoot)

\* C3 (as stated): every media file with a missing or invalid required tag ends
\* at unknown/<source directory relative to watch>/<original filename>: the step
\* that disposes of it after process_music_file has failed leaves it there
C3_AlwaysEndsInUnknown ==
    [][LET claimed(orig) ==
               Norm(UnknownRoot \o <<Sep>> \o relpath(dirname(orig), WatchRoot)
                        \o <<Sep>> \o basename(orig))
           filepath == th["main"].filepath
       IN (/\ th["main"].pc = "book"
           /\ ~th["main"].success
           /\ th'["main"] # th["main"]
           /\ filepath \in DOMAIN fs
           /\ fs[filepath].kind = "media"
           /\ ~(fs[filepath].meta.readable /\ AllRequired(fs[filepath].meta)))
             => /\ filepath \notin DOMAIN fs'
                /\ claimed(filepath) \in DOMAIN fs'
                /\ fs'[claimed(filepath)] = fs[filepath]]_vars

\* C4: a file whose five required tags are all present (non-empty artist, album,
\* title and date, a track number whose part before '/' parses as an integer) is
\* moved by process_music_file to sorted/<sanitize(artist)>/<sanitize(album)>
\* (<date[:4]>)/<NN> - <sanitize(title)>.<ext>, four segments, NN two digits
C4_SortedShape ==
    \A p \in DOMAIN fs :
        LET m == fs[p].meta
            text(field) == m[field].has /\ Len(m[field].val) > 0
            head == Split(m.tracknumber.val, Sep)[1]
            present == /\ text("artist") /\ text("album") /\ text("title") /\ text("date")
                       /\ m.tracknumber.has /\ IsInt(head)
            NN == Format02d(ParseInt(head))
            ext == splitext(fs[p].orig)[2]
            claimed == SortedRoot \o <<Sep>> \o sanitize_filename(m.artist.val)
                         \o <<Sep>> \o sanitize_filename(m.album.val)
                         \o <<" ", "(">> \o Take(m.date.val, 4) \o <<")">>
                         \o <<Sep>> \o NN \o <<" ", "-", " ">>
                         \o sanitize_filename(m.title.val) \o ext
        IN (th["main"].pc = "book" /\ faults = 0 /\ fs[p].kind = "media" /\ present)
             => /\ p = claimed
                /\ Len(Split(p, Sep)) = 4
                /\ Len(NN) = 2

\* C5: the event thread and the main thread are never inside
\* check_directory_readiness / process_directory for the same directory at once
C5_OneCheckPerDirectory ==
    ~(/\ th["event"].pc = "check"
      /\ th["main"].pc \in {"check", "probe", "wait", "cover", "file", "pmf", "book", "end", "del"}
      /\ th["event"].directory = th["main"].directory)

\* C6: a file recorded in pending_files leaves it only when the pass whose
\* snapshot holds it handles it: a file that arrives while the pass runs is
\* neither processed by that pass nor dropped from the registry
C6_ArrivalsKept ==
    [][\A d \in DOMAIN directory_state :
         \A f \in directory_state[d].pending_files :
            \/ d \in DOMAIN directory_state' /\ f \in directory_state'[d].pending_files
            \/ /\ th["main"].directory = d
               /\ th["main"].pc \in {"file", "book"}
               /\ f \in th["main"].pending_copy \cup {th["main"].filepath}]_vars

\* C7: when the lock loop ends with a locked file, check_directory_readiness
\* returns without running process_directory or handle_remaining_files, and
\* leaves the registry, the last-arrival times and the files as they are, the
\* directory still tracked
C7_LockedDefers ==
    [][(/\ th["main"].pc = "probe"
        /\ th["main"].locked_files # {}
        /\ th'["main"].pc \notin {"probe", "wait", "crashed"})
          => /\ th'["main"].pc \in {"sleep", "next"}
             /\ directory_state' = directory_state
             /\ last_file_age' = last_file_age
             /\ fs' = fs /\ dirs' = dirs
             /\ th["main"].directory \in DOMAIN directory_state']_vars

\* C7 witness: the lock loop has probed every pending file and found one locked
C7_Witness ==
    /\ th["main"].pc = "probe"
    /\ th["main"].locked_files # {}
    /\ th["main"].directory \in DOMAIN directory_state
    /\ directory_state[th["main"].directory].pending_files = th["main"].seen

\* C8: a registry entry is removed only when its pending_files is empty (at the
\* end of a pass, after handle_remaining_files)
C8_RemovedOnlyWhenDrained ==
    [][\A d \in DOMAIN directory_state :
         d \notin DOMAIN directory_state'
            => /\ directory_state[d].pending_files = {}
               /\ th["main"].pc = "del"]_vars

\* C9: no failure of a per-file or per-directory step escapes
\* check_directory_readiness and stops a thread
C9_NoFailureEscapes == \A t \in Threads : th[t].exc # "OSError"

\* C10: a file with a missing or invalid tag that lies in the unknown tree has
\* not been modified by cover-art embedding
C10_UnknownUntouched ==
    \A p \in DOMAIN fs :
        (/\ Under(p, UnknownRoot)
         /\ fs[p].kind = "media"
         /\ ~(fs[p].meta.readable /\ AllRequired(fs[p].meta)))
           => \A i \in 1..Len(fs[p].pics) : fs[p].pics[i].data = << >>

C12_PruneSafe ==
    [][/\ WatchRoot \in dirs'
       /\ \A d \in dirs \ dirs' :
            /\ \A p \in DOMAIN fs' : ~Under(p, d)
            /\ \A c \in dirs' : ~Under(c, d)]_vars

\* C12 witness: the reconciler has run for the watch root itself and has pruned
\* a directory below it
C12_Witness ==
    /\ th["main"].pc = "del"
    /\ th["main"].directory = WatchRoot
    /\ WatchRoot \in dirs
    /\ DirA \notin dirs

\* C13: an enrichment pass over a file that carries a picture attached by
\* add_cover_art, or a front cover of its own, changes nothing, and a file never
\* carries more than one picture attached by add_cover_art
C13_EnrichOnce ==
    [][\A f \in DOMAIN fs :
         LET added(file) == {i \in 1..Len(file.pics) : file.pics[i].data # << >>}
             fronts(file) == {i \in 1..Len(file.pics) : file.pics[i].type = 3}
         IN /\ f \in DOMAIN fs'
            /\ Cardinality(added(fs'[f])) <= 1
            /\ (added(fs[f]) # {} \/ fronts(fs[f]) # {}) => fs'[f] = fs[f]]_vars

\* C13 witness: a file carries a front cover attached by add_cover_art next to a
\* picture of its own
C13_Witness ==
    \E f \in DOMAIN fs :
        /\ \E i \in 1..Len(fs[f].pics) : fs[f].pics[i].data # << >>
        /\ \E i \in 1..Len(fs[f].pics) : fs[f].pics[i].data = << >>

\* C14: sanitize_filename(sanitize_filename(s)) = sanitize_filename(s); the
\* result holds only alphanumeric characters, '.', '_' and space and does not end
\* in a space; it is what process_music_file puts into the new file name
C14_SanitizeIdempotent ==
    \A p \in DOMAIN fs :
        LET s == fs[p].meta.title.val
            t == sanitize_filename(s)
            allowed == LowerLetters \cup UpperLetters \cup DigitChars \cup {".", "_", " "}
        IN /\ sanitize_filename(t) = t
           /\ \A i \in 1..Len(t) : t[i] \in allowed
           /\ Len(t) > 0 => t[Len(t)] # " "
           /\ (th["main"].pc = "book" /\ th["main"].success)
                => basename(p) = <<"0", "3", " ", "-", " ">> \o t \o <<".", "m", "p", "3">>

\* C14 witness: a file was renamed after a title from which sanitize_filename
\* dropped a character and stripped a trailing space
C14_Witness ==
    /\ th["main"].pc = "book"
    /\ th["main"].success
    /\ \E p \in DOMAIN fs :
         LET s == fs[p].meta.title.val IN
         /\ Len(s) > 0 /\ s[Len(s)] = " "
         /\ \E i \in 1..Len(s) : s[i] = "!"
         /\ sanitize_filename(s) # << >>

\* C15: is_file_locked returns False at the first attempt at which the file
\* opens and tries no more; it returns True only if every attempt failed and the
\* timeout has elapsed; the attempts are bounded by timeout and interval (attempt
\* k starts at least (k-1) intervals after the first, before the timeout); and
\* the call always returns
C15_LockProbe ==
    /\ [][LET c == th["main"].probe
              r == th'["main"].probe
          IN /\ (c.result = "none" /\ r.result = "False")
                   => /\ File1 \notin locks
                      /\ r.attempts = c.attempts + 1
                      /\ r.failures = c.attempts
             /\ c.result # "none" => r = c
             /\ r.result = "True" => r.failures = r.attempts /\ r.elapsed >= r.timeout
             /\ r.attempts >= 1 => (r.attempts - 1) * r.check_interval < r.timeout]_vars
    /\ <>(th["main"].probe.result # "none")

\* C15 witness: a call has returned False at an attempt that followed a failed one
C15_Witness ==
    /\ th["main"].probe.result = "False"
    /\ th["main"].probe.failures >= 1
    /\ th["main"].probe.attempts = th["main"].probe.failures + 1

\* C16: a pending file that has vanished when its processing starts (line 154)
\* is dropped: the pass does not go on to record it in failed_files and to call
\* move_to_unknown for it (lines 158-161)
C16_VanishedDropped ==
    [][(/\ th["main"].pc = "pmf"
        /\ th["main"].filepath \notin DOMAIN fs
        /\ th'["main"] # th["main"])
          => ~(th'["main"].pc = "book" /\ ~th'["main"].success)]_vars

\* C17: when relocating a file of the batch fails with an I/O error (the move to
\* sorted, the move to unknown, or the creation of a destination directory), the
\* file is left at its original path and the pass goes on with the next file of
\* its snapshot
C17_FailedMoveLeavesFile ==
    [][LET filepath == th["main"].filepath IN
       (/\ th["main"].pc = "book"
        /\ th'["main"] # th["main"]
        /\ filepath \in DOMAIN fs
        /\ \/ ~th["main"].success /\ Accepts(fs, filepath)
           \/ faults' > faults)
          => /\ filepath \in DOMAIN fs'
             /\ fs'[filepath] = fs[filepath]
             /\ th'["main"].pc = "file"
             /\ th'["main"].pending_copy = th["main"].pending_copy]_vars

\* C18: once arrivals have stopped and every pending file is unlocked, every
\* tracked directory is eventually drained and removed from the registry, and
\* stays removed; this without any I/O failure in the run
C18_EventuallyDrained == <>[](faults > 0 \/ DOMAIN directory_state = {})

\* C19: reconciling directory D changes no file that lies in a subdirectory of D
\* which is itself tracked with pending files: no image there is deleted, no
\* other file there is moved
C19_TrackedSubdirKept ==
    [][(th["main"].pc = "end" /\ th'["main"] # th["main"])
          => \A d \in DOMAIN directory_state :
                (/\ Under(d, th["main"].directory)
                 /\ directory_state[d].pending_files # {})
                  => \A p \in DOMAIN fs :
                        dirname(p) = d => p \in DOMAIN fs' /\ fs'[p] = fs[p]]_vars

\* C20: no step of a processing pass decreases the number of media files: a
\* relocation never destroys a file by overwriting the one at its destination
C20_NoOverwrite ==
    [][(th'["main"] # th["main"] /\ arrivals' = arrivals)
          => Cardinality({p \in DOMAIN fs' : fs'[p].kind = "media"})
                >= Cardinality({p \in DOMAIN fs : fs[p].kind = "media"})]_vars

\* C21: the pruning that follows the reconciliation of directory D removes only
\* D, directories in D's subtree and ancestors of D below the watch root: a
\* directory beside D, or beside one of D's ancestors, stays in place
C21_PruneFrame ==
    [][(th["main"].pc = "end" /\ th'["main"] # th["main"])
          => \A x \in dirs \ dirs' :
                \/ x = th["main"].directory
                \/ Under(x, th["main"].directory)
                \/ Under(th["main"].directory, x) /\ x # WatchRoot]_vars

=============================================================================
